---------------------------- MODULE Spec2Model ----------------------------
(***************************************************************************)
(* A model of src/view/ViewCommandHandlers.js: the font-size commands      *)
(* (increase, decrease, restore) and the scroll-line commands (up, down).  *)
(*                                                                         *)
(* Numbers that the code handles as JavaScript doubles are fixed-point     *)
(* here: a font-size or line-height magnitude n stands for n/10 (tenths),  *)
(* so the px step 1 is 10 and the em step 0.1 is 1.  Pixel inputs are      *)
(* multiples of 0.5, on which double arithmetic is exact; the em           *)
(* arithmetic is decimal (the doubles' rounding of 0.1 is not modelled).   *)
(* Scroll offsets, text heights and widget heights are whole pixels.       *)
(* A CSS value is a sequence of one-character strings.                     *)
(***************************************************************************)
EXTENDS Integers, Sequences, FiniteSets, TLC

VARIABLES
    head,            \* the <style> elements of the document's <head>
    baseFontSize,    \* font-size of .CodeMirror from the static style sheets
    baseLineHeight,  \* line-height of .CodeMirror from the static style sheets
    scrollPos,       \* editor scroll position [x, y]
    clientHeight,    \* scrollInfo.clientHeight: the viewport's height
    textHeight,      \* editor.getTextHeight()
    paddingTop,      \* editor._getLineSpaceElement().offsetTop
    cursorPos,       \* editor cursor [line, ch]
    hasSelection,    \* editor.hasSelection()
    inlineWidgets,   \* editor.getInlineWidgets(): sequence of [line, height]
    lastCall,        \* history: the last command run, [op, direction]
    prevCall,        \* history: the font command run before lastCall
    pre,             \* history: the state lastCall started from
    prevFontSize,    \* history: the computed font-size that prevCall started from
    out              \* history: what the last scrollLine call computed and requested

vars == <<head, baseFontSize, baseLineHeight, scrollPos, clientHeight, textHeight,
          paddingTop, cursorPos, hasSelection, inlineWidgets,
          lastCall, prevCall, pre, prevFontSize, out>>

editorVars == <<clientHeight, textHeight, paddingTop, inlineWidgets, hasSelection>>

-----------------------------------------------------------------------------
(* Bounds of the model *)

MaxFont == 4        \* font-size magnitudes stay <= MaxFont units (cap of the increase)
MaxScroll == 3      \* font specification: scroll offsets are in 0..MaxScroll
MaxTextHeight == 2  \* scroll specifications: text heights are in 1..MaxTextHeight
MaxView == 4        \* viewport heights are in 0..MaxView
MaxLine == 3        \* the document's lines are 0..MaxLine
MaxCh == 1          \* cursor columns are in 0..MaxCh
MaxLeft == 1        \* the horizontal scroll offset of the scroll specifications
MaxPadding == 1     \* content top paddings are 0 and MaxPadding
MaxInline == 1      \* SpecScroll: at most MaxInline inline widgets
MaxWidgets == 2     \* SpecWidgets: at most MaxWidgets inline widgets
MaxH == 3           \* SpecLines: text heights are in 1..MaxH
MaxS == 7           \* SpecLines: scroll offsets are in 0..MaxS
MaxV == 7           \* SpecLines: viewport heights are in 0..MaxV

-----------------------------------------------------------------------------
(* Strings and numbers *)

Digits == <<"0", "1", "2", "3", "4", "5", "6", "7", "8", "9">>

IsDigit(c) == \E d \in 1..10 : Digits[d] = c

DigitVal(c) == (CHOOSE d \in 1..10 : Digits[d] = c) - 1

Abs(n) == IF n < 0 THEN 0 - n ELSE n

RECURSIVE NatToStr(_)
NatToStr(n) ==
    IF n < 10 THEN <<Digits[n + 1]>>
    ELSE NatToStr(n \div 10) \o <<Digits[(n % 10) + 1]>>

\* Number-to-string conversion of `fsNew + fsUnits`: n is in tenths.
NumToStr(n) ==
    (IF n < 0 THEN <<"-">> ELSE <<>>)
    \o NatToStr(Abs(n) \div 10)
    \o (IF Abs(n) % 10 # 0 THEN <<".", Digits[(Abs(n) % 10) + 1]>> ELSE <<>>)

\* s.substring(from, to), zero-based, `to` exclusive.
Substring(s, from, to) == SubSeq(s, from + 1, to)

RECURSIVE DigitsVal(_)
DigitsVal(s) ==
    IF s = <<>> THEN 0
    ELSE 10 * DigitsVal(SubSeq(s, 1, Len(s) - 1)) + DigitVal(s[Len(s)])

\* Length of the longest prefix of s made of digits.
RECURSIVE DigitPrefixLen(_)
DigitPrefixLen(s) ==
    IF s # <<>> /\ IsDigit(s[1]) THEN 1 + DigitPrefixLen(Tail(s)) ELSE 0

\* parseFloat on an unsigned decimal numeral: the integer digits, then an
\* optional "." and fraction digits, of which the first is kept (tenths).
ParseFloat(s) ==
    LET k    == DigitPrefixLen(s)
        rest == SubSeq(s, k + 1, Len(s))
        frac == IF rest # <<>> /\ rest[1] = "." THEN Tail(rest) ELSE <<>>
    IN  10 * DigitsVal(SubSeq(s, 1, k))
        + (IF DigitPrefixLen(frac) > 0 THEN DigitVal(frac[1]) ELSE 0)

\* s.search(/^[\d\.]+(px|em)$/) !== -1
validFont(s) ==
    /\ Len(s) >= 3
    /\ \A i \in 1..(Len(s) - 2) : IsDigit(s[i]) \/ s[i] = "."
    /\ SubSeq(s, Len(s) - 1, Len(s)) \in {<<"p", "x">>, <<"e", "m">>}

\* Math.round(a / b) for a >= 0, b > 0: halves round up.
Round(a, b) == (2 * a + b) \div (2 * b)

-----------------------------------------------------------------------------
(* The style sheet: the injected rule and what the editor surface computes *)

DYNAMIC_FONT_STYLE_ID == "codemirror-dynamic-fonts"

px == <<"p", "x">>
em == <<"e", "m">>

\* Static font-size values the host style sheets may give .CodeMirror; the
\* last one is in a unit the command does not handle.
BaseFontSizes ==
    { NumToStr(n) \o px : n \in {10, 15, 20, 30} }
    \cup { NumToStr(n) \o em : n \in {2, 3} }
    \cup { <<"5", "0", "%">> }

BaseLineHeights ==
    { NumToStr(n) \o px : n \in {10, 25} }
    \cup { NumToStr(n) \o em : n \in {1, 12} }
    \cup { <<"n", "o", "r", "m", "a", "l">> }

\* $("#" + DYNAMIC_FONT_STYLE_ID): an id selector matches the first element
\* of the document with that id.
DynamicStyleIndexes(h) == { i \in 1..Len(h) : h[i].id = DYNAMIC_FONT_STYLE_ID }

RemoveAt(h, i) == SubSeq(h, 1, i - 1) \o SubSeq(h, i + 1, Len(h))

\* Mutant of RemoveDynamicFontSize: the prior rule is left in place.
RemoveNothing(h) == h

\* _removeDynamicFontSize: $("#" + DYNAMIC_FONT_STYLE_ID).remove()
RemoveDynamicFontSize(h) ==
    IF DynamicStyleIndexes(h) = {} THEN h
    ELSE RemoveAt(h, CHOOSE i \in DynamicStyleIndexes(h) :
                        \A j \in DynamicStyleIndexes(h) : i <= j)

\* The <style> element built and appended to <head>.
DynamicStyle(fsStr, lhStr) ==
    [id |-> DYNAMIC_FONT_STYLE_ID, fontSize |-> fsStr, lineHeight |-> lhStr]

\* The style engine drops a declaration whose length is negative.
CssAccepts(value) == value # <<>> /\ value[1] # "-"

\* $(".CodeMirror").css("font-size"): the last !important rule of <head>
\* with an accepted font-size declaration wins over the static value.
RECURSIVE CssFontSizeOf(_, _)
CssFontSizeOf(h, base) ==
    IF h = <<>> THEN base
    ELSE IF CssAccepts(h[Len(h)].fontSize) THEN h[Len(h)].fontSize
    ELSE CssFontSizeOf(SubSeq(h, 1, Len(h) - 1), base)

\* $(".CodeMirror").css("line-height")
RECURSIVE CssLineHeightOf(_, _)
CssLineHeightOf(h, base) ==
    IF h = <<>> THEN base
    ELSE IF CssAccepts(h[Len(h)].lineHeight) THEN h[Len(h)].lineHeight
    ELSE CssLineHeightOf(SubSeq(h, 1, Len(h) - 1), base)

CssFontSize == CssFontSizeOf(head, baseFontSize)
CssLineHeight == CssLineHeightOf(head, baseLineHeight)

-----------------------------------------------------------------------------
(* _adjustFontSize *)

\* style.substring(style.length - 2, style.length)
Units(style) == Substring(style, Len(style) - 2, Len(style))

\* parseFloat(style.substring(0, style.length - 2))
Magnitude(style) == ParseFloat(Substring(style, 0, Len(style) - 2))

\* Mutant of Delta: the step is not negated for direction -1.
DeltaNotNegated(units, direction) == IF units = px THEN 10 ELSE 1

\* fsDelta / lhDelta: 1 for px, 0.1 otherwise, negated for direction -1.
Delta(units, direction) ==
    LET d == IF units = px THEN 10 ELSE 1
    IN  IF direction = -1 THEN d * (-1) ELSE d

\* Mutant of TooSmall: the threshold itself is let through.
TooSmallStrict(direction, fsUnits, fsNew) ==
    direction = -1 /\ ((fsUnits = px /\ fsNew < 10) \/ (fsUnits = em /\ fsNew < 1))

\* "Don't let the fonts get too small."
TooSmall(direction, fsUnits, fsNew) ==
    direction = -1 /\ ((fsUnits = px /\ fsNew <= 10) \/ (fsUnits = em /\ fsNew <= 1))

\* The scroll positions editor.setScrollPos may leave for a request: the
\* editor keeps offsets within its scrollable range 0..limit.
ClampTo(v, limit) == IF v < 0 THEN 0 ELSE IF v > limit THEN limit ELSE v

\* The scroll correction after the refresh.  Math.round(pos / lhOld) is not
\* finite when lhOld is 0; what the editor then scrolls to is not determined.
ScrollAfterResize(pos, lhOld, direction) ==
    IF lhOld = 0
    THEN { [x |-> a, y |-> b] : a \in 0..MaxScroll, b \in 0..MaxScroll }
    ELSE { [x |-> ClampTo(pos.x + Round(10 * pos.x, lhOld) * direction, MaxScroll),
            y |-> ClampTo(pos.y + Round(10 * pos.y, lhOld) * direction, MaxScroll)] }

\* The state a command starts from, kept for the history variables.
Snapshot ==
    [head |-> head, scrollPos |-> scrollPos, cursorPos |-> cursorPos,
     fontSize |-> CssFontSize, lineHeight |-> CssLineHeight]

Record(op, direction) ==
    /\ lastCall' = [op |-> op, direction |-> direction]
    /\ pre' = Snapshot

RecordFont(op, direction) ==
    /\ Record(op, direction)
    /\ prevCall' = lastCall
    /\ prevFontSize' = pre.fontSize

\* The cap of the model on the increase: the new magnitude stays within
\* MaxFont steps of zero.
WithinCap(fsStyle, direction) ==
    validFont(fsStyle) =>
        Magnitude(fsStyle) + Delta(Units(fsStyle), direction)
            <= MaxFont * Delta(Units(fsStyle), 1)

AdjustFontSize(direction) ==
    LET fsStyle == CssFontSize
        lhStyle == CssLineHeight
    IN
    /\ WithinCap(fsStyle, direction)
    /\ RecordFont("adjustFontSize", direction)
    /\ UNCHANGED <<baseFontSize, baseLineHeight, editorVars, cursorPos, out>>
    /\ IF ~validFont(fsStyle) \/ ~validFont(lhStyle)
       THEN UNCHANGED <<head, scrollPos>>
       ELSE LET fsUnits == Units(fsStyle)
                lhUnits == Units(lhStyle)
                fsOld   == Magnitude(fsStyle)
                lhOld   == Magnitude(lhStyle)
                fsNew   == fsOld + Delta(fsUnits, direction)
                lhNew   == lhOld + Delta(lhUnits, direction)
                fsStr   == NumToStr(fsNew) \o fsUnits
                lhStr   == NumToStr(lhNew) \o lhUnits
            IN  IF TooSmall(direction, fsUnits, fsNew)
                THEN UNCHANGED <<head, scrollPos>>
                ELSE /\ head' = Append(RemoveDynamicFontSize(head),
                                       DynamicStyle(fsStr, lhStr))
                     /\ IF fsUnits = px
                        THEN scrollPos' \in ScrollAfterResize(scrollPos, lhOld, direction)
                        ELSE UNCHANGED scrollPos

IncreaseFontSize == AdjustFontSize(1)

DecreaseFontSize == AdjustFontSize(-1)

\* Mutant of RestoreFontSize: the layout is refreshed, the rule stays.
RestoreRefreshOnly ==
    /\ RecordFont("restoreFontSize", 0)
    /\ UNCHANGED <<head, baseFontSize, baseLineHeight, scrollPos, editorVars, cursorPos, out>>

\* _handleRestoreFontSize: _removeDynamicFontSize(true); refreshAll
\* recomputes the layout and leaves the modelled state alone.
RestoreFontSize ==
    /\ RecordFont("restoreFontSize", 0)
    /\ head' = RemoveDynamicFontSize(head)
    /\ UNCHANGED <<baseFontSize, baseLineHeight, scrollPos, editorVars, cursorPos, out>>

NoCall == [op |-> "none", direction |-> 0]

NoOut ==
    [applied |-> [x |-> 0, y |-> 0], trace |-> <<>>,
     cursor |-> [kind |-> "none", line |-> 0]]

InitFont ==
    /\ head = <<>>
    /\ baseFontSize \in BaseFontSizes
    /\ baseLineHeight \in BaseLineHeights
    /\ scrollPos \in { [x |-> a, y |-> b] : a \in {0, MaxScroll}, b \in 0..MaxScroll }
    /\ clientHeight = 0
    /\ textHeight = 1
    /\ paddingTop = 0
    /\ cursorPos = [line |-> 0, ch |-> 0]
    /\ hasSelection = FALSE
    /\ inlineWidgets = <<>>
    /\ lastCall = NoCall
    /\ prevCall = NoCall
    /\ pre = Snapshot
    /\ prevFontSize = CssFontSize
    /\ out = NoOut

NextFont == IncreaseFontSize \/ DecreaseFontSize \/ RestoreFontSize

SpecFont == InitFont /\ [][NextFont]_vars

-----------------------------------------------------------------------------
(* _getLinesInView and _scrollLine *)

\* Math.ceil(a / b) and Math.floor(a / b) for b > 0.
Ceil(a, b) == 0 - ((0 - a) \div b)
Floor(a, b) == a \div b

\* Mutant of GetLinesInView: the last line is not rounded inward.
GetLinesInViewNotInward(h, scrollTop, editorHeight) ==
    [first |-> Ceil(scrollTop, h) - 1,
     last  |-> Floor(scrollTop + editorHeight, h)]

\* _getLinesInView(editor, scrollTop, editorHeight), with the editor's text height.
GetLinesInView(h, scrollTop, editorHeight) ==
    [first |-> Ceil(scrollTop, h) - 1,
     last  |-> Floor(scrollTop + editorHeight, h) - 2]

\* Mutant of EffectiveScrollTop: the scroll top is used as read.
ScrollTopAsRead(top, padding, direction) == top

\* The scroll top used for the line range: the padding offset when the
\* editor is scrolled above it and the direction is down.
EffectiveScrollTop(top, padding, direction) ==
    IF top < padding /\ direction > 0 THEN padding ELSE top

\* Mutant of WidgetStep: a widget above the first line is also taken off
\* the viewport height.
WidgetStepBoth(acc, w, h) ==
    IF w.line < acc.linesInView.first
    THEN [scrollTop    |-> acc.scrollTop - w.height,
          editorHeight |-> acc.editorHeight - w.height,
          linesInView  |-> GetLinesInView(h, acc.scrollTop - w.height,
                                          acc.editorHeight - w.height)]
    ELSE IF w.line * h + w.height < acc.linesInView.last * h
    THEN [scrollTop    |-> acc.scrollTop,
          editorHeight |-> acc.editorHeight - w.height,
          linesInView  |-> GetLinesInView(h, acc.scrollTop, acc.editorHeight - w.height)]
    ELSE acc

\* The body of the forEach over the inline widgets: acc holds scrollTop,
\* editorHeight and linesInView.  `line + total < last` with
\* total = height / textHeight is compared without the division.
WidgetStep(acc, w, h) ==
    IF w.line < acc.linesInView.first
    THEN [scrollTop    |-> acc.scrollTop - w.height,
          editorHeight |-> acc.editorHeight,
          linesInView  |-> GetLinesInView(h, acc.scrollTop - w.height, acc.editorHeight)]
    ELSE IF w.line * h + w.height < acc.linesInView.last * h
    THEN [scrollTop    |-> acc.scrollTop,
          editorHeight |-> acc.editorHeight - w.height,
          linesInView  |-> GetLinesInView(h, acc.scrollTop, acc.editorHeight - w.height)]
    ELSE acc

\* The values of scrollTop, editorHeight and linesInView before the loop
\* and after each widget, in enumeration order.
RECURSIVE WidgetTrace(_, _, _)
WidgetTrace(acc, ws, h) ==
    IF ws = <<>> THEN <<acc>>
    ELSE <<acc>> \o WidgetTrace(WidgetStep(acc, Head(ws), h), Tail(ws), h)

\* Mutant of CursorRequest: the selection is not looked at.
CursorRequestIgnoringSelection(direction, selection, line, linesInView) ==
    IF direction > 0 /\ line < linesInView.first
    THEN [kind |-> "setCursorPos", line |-> linesInView.first + 1]
    ELSE IF direction < 0 /\ line > linesInView.last
    THEN [kind |-> "setCursorPos", line |-> linesInView.last - 1]
    ELSE IF (direction > 0 /\ line = linesInView.first)
            \/ (direction < 0 /\ line = linesInView.last)
    THEN [kind |-> "moveV", line |-> direction]
    ELSE [kind |-> "none", line |-> 0]

\* Mutant of CursorRequest: the cursor is put on the boundary line itself.
CursorRequestOnBoundary(direction, selection, line, linesInView) ==
    IF selection THEN [kind |-> "none", line |-> 0]
    ELSE IF direction > 0 /\ line < linesInView.first
    THEN [kind |-> "setCursorPos", line |-> linesInView.first]
    ELSE IF direction < 0 /\ line > linesInView.last
    THEN [kind |-> "setCursorPos", line |-> linesInView.last]
    ELSE IF (direction > 0 /\ line = linesInView.first)
            \/ (direction < 0 /\ line = linesInView.last)
    THEN [kind |-> "moveV", line |-> direction]
    ELSE [kind |-> "none", line |-> 0]

\* Mutant of CursorRequest: the cursor on the boundary line is left there.
CursorRequestNoMove(direction, selection, line, linesInView) ==
    IF selection THEN [kind |-> "none", line |-> 0]
    ELSE IF direction > 0 /\ line < linesInView.first
    THEN [kind |-> "setCursorPos", line |-> linesInView.first + 1]
    ELSE IF direction < 0 /\ line > linesInView.last
    THEN [kind |-> "setCursorPos", line |-> linesInView.last - 1]
    ELSE [kind |-> "none", line |-> 0]

\* The cursor adjustment _scrollLine asks of the editor.
CursorRequest(direction, selection, line, linesInView) ==
    IF selection THEN [kind |-> "none", line |-> 0]
    ELSE IF direction > 0 /\ line < linesInView.first
    THEN [kind |-> "setCursorPos", line |-> linesInView.first + 1]
    ELSE IF direction < 0 /\ line > linesInView.last
    THEN [kind |-> "setCursorPos", line |-> linesInView.last - 1]
    ELSE IF (direction > 0 /\ line = linesInView.first)
            \/ (direction < 0 /\ line = linesInView.last)
    THEN [kind |-> "moveV", line |-> direction]
    ELSE [kind |-> "none", line |-> 0]

\* The editor: a document of lines 0..MaxLine, each textHeight high, below
\* the top padding, with the inline widgets' heights in between.
RECURSIVE SumHeights(_)
SumHeights(ws) == IF ws = <<>> THEN 0 ELSE Head(ws).height + SumHeights(Tail(ws))

ScrollLimit ==
    LET content == paddingTop + (MaxLine + 1) * textHeight + SumHeights(inlineWidgets)
    IN  IF content > clientHeight THEN content - clientHeight ELSE 0

\* editor.setScrollPos(x, y): the editor keeps the offset in its scrollable range.
SetScrollPos(x, y) == [x |-> x, y |-> ClampTo(y, ScrollLimit)]

\* editor.setCursorPos / _codeMirror.moveV: the cursors the editor may end
\* on.  The line is clipped to the document; setCursorPos is given the old
\* column, and a vertical move lands on a column that depends on the text.
CursorsAfter(pos, request) ==
    IF request.kind = "setCursorPos"
    THEN { [line |-> ClampTo(request.line, MaxLine), ch |-> pos.ch] }
    ELSE IF request.kind = "moveV"
    THEN { [line |-> ClampTo(pos.line + request.line, MaxLine), ch |-> c] : c \in 0..MaxCh }
    ELSE { pos }

ScrollLine(direction) ==
    LET top         == scrollPos.y
        scrollTop   == EffectiveScrollTop(top, paddingTop, direction)
        scrolledTop == scrollTop
        trace       == WidgetTrace([scrollTop    |-> scrollTop,
                                    editorHeight |-> clientHeight,
                                    linesInView  |-> GetLinesInView(textHeight, scrollTop,
                                                                    clientHeight)],
                                   inlineWidgets, textHeight)
        linesInView == trace[Len(trace)].linesInView
        request     == CursorRequest(direction, hasSelection, cursorPos.line, linesInView)
        target      == [x |-> scrollPos.x, y |-> scrolledTop + textHeight * direction]
    IN
    /\ Record("scrollLine", direction)
    /\ cursorPos' \in CursorsAfter(cursorPos, request)
    /\ scrollPos' = SetScrollPos(target.x, target.y)
    /\ out' = [applied |-> target, trace |-> trace, cursor |-> request]
    /\ UNCHANGED <<head, baseFontSize, baseLineHeight, editorVars, prevCall, prevFontSize>>

ScrollLineUp == ScrollLine(-1)

ScrollLineDown == ScrollLine(1)

\* Lists of at most n inline widgets anchored in the document, with heights
\* drawn from `heights`, in any enumeration order.
WidgetLists(n, heights) ==
    UNION { [1..k -> [line : 0..MaxLine, height : heights]] : k \in 0..n }

InitEditor(widgetLists, views, paddings, cursorLines, selections) ==
    /\ head = <<>>
    /\ baseFontSize = <<"1", "2">> \o px
    /\ baseLineHeight = <<"1", "5">> \o px
    /\ textHeight \in 1..MaxTextHeight
    /\ clientHeight \in views
    /\ paddingTop \in paddings
    /\ inlineWidgets \in widgetLists
    /\ scrollPos \in { [x |-> MaxLeft, y |-> b] : b \in 0..ScrollLimit }
    /\ cursorPos \in { [line |-> l, ch |-> MaxCh] : l \in cursorLines }
    /\ hasSelection \in selections
    /\ lastCall = NoCall
    /\ prevCall = NoCall
    /\ pre = Snapshot
    /\ prevFontSize = CssFontSize
    /\ out = NoOut

NextScroll == ScrollLineUp \/ ScrollLineDown

\* The scroll commands on any viewport, padding, cursor and selection, with
\* at most MaxInline inline widgets.
InitScroll ==
    InitEditor(WidgetLists(MaxInline, {2}), 0..MaxView, {0, MaxPadding},
               0..MaxLine, BOOLEAN)

SpecScroll == InitScroll /\ [][NextScroll]_vars

\* The scroll commands over lists of up to MaxWidgets inline widgets, on a
\* full-height viewport with a selection active (the cursor stays put, the
\* line range is computed all the same).
InitWidgets ==
    InitEditor(WidgetLists(MaxWidgets, {1, 3}), {MaxView}, {0}, {0}, {TRUE})

SpecWidgets == InitWidgets /\ [][NextScroll]_vars

\* The visible-line calculator on its own: any text height, scroll offset
\* and viewport height within the bounds, then one call of _getLinesInView.
LinesInView ==
    /\ lastCall.op = "none"
    /\ Record("getLinesInView", 0)
    /\ out' = [applied |-> scrollPos,
               trace   |-> <<[scrollTop    |-> scrollPos.y,
                              editorHeight |-> clientHeight,
                              linesInView  |-> GetLinesInView(textHeight, scrollPos.y,
                                                              clientHeight)]>>,
               cursor  |-> [kind |-> "none", line |-> 0]]
    /\ UNCHANGED <<head, baseFontSize, baseLineHeight, scrollPos, editorVars, cursorPos,
                   prevCall, prevFontSize>>

InitLines ==
    /\ head = <<>>
    /\ baseFontSize = <<"1", "2">> \o px
    /\ baseLineHeight = <<"1", "5">> \o px
    /\ textHeight \in 1..MaxH
    /\ clientHeight \in 0..MaxV
    /\ paddingTop = 0
    /\ inlineWidgets = <<>>
    /\ scrollPos \in { [x |-> 0, y |-> b] : b \in 0..MaxS }
    /\ cursorPos = [line |-> 0, ch |-> 0]
    /\ hasSelection = FALSE
    /\ lastCall = NoCall
    /\ prevCall = NoCall
    /\ pre = Snapshot
    /\ prevFontSize = CssFontSize
    /\ out = NoOut

SpecLines == InitLines /\ [][LinesInView]_vars

-----------------------------------------------------------------------------
(* Claims about the font-size commands, checked under SpecFont *)

DecreaseRan == lastCall.op = "adjustFontSize" /\ lastCall.direction = -1

\* C1: a decrease never installs a px font-size <= 1 (an em one <= 0.1); the
\* decrease whose result would be at or below that threshold leaves the
\* override, the computed font-size and line-height and the scroll position
\* as they were; and starting from a px font-size > 1 the computed font-size
\* stays > 1 whatever commands run.
C1_DecreaseNeverBelowMinimum ==
    /\ (DecreaseRan /\ validFont(pre.fontSize) /\ validFont(pre.lineHeight)) =>
          LET isPx   == Units(pre.fontSize) = px
              result == Magnitude(pre.fontSize) - (IF isPx THEN 10 ELSE 1)
              floor  == IF isPx THEN 10 ELSE 1
          IN  /\ result <= floor =>
                    /\ head = pre.head
                    /\ scrollPos = pre.scrollPos
                    /\ CssFontSize = pre.fontSize
                    /\ CssLineHeight = pre.lineHeight
              /\ head # pre.head => Magnitude(CssFontSize) > floor
    /\ (validFont(baseFontSize) /\ Units(baseFontSize) = px
            /\ Magnitude(baseFontSize) > 10) =>
          (Units(CssFontSize) = px /\ Magnitude(CssFontSize) > 10)

\* C1 witness: a decrease met the threshold with an override already
\* installed by earlier commands, and changed nothing.
C1_Witness ==
    /\ DecreaseRan
    /\ prevCall.op = "adjustFontSize"
    /\ pre.head # <<>>
    /\ validFont(pre.lineHeight)
    /\ pre.fontSize = <<"2">> \o px
    /\ head = pre.head

OppositeAdjustments ==
    /\ lastCall.op = "adjustFontSize"
    /\ prevCall.op = "adjustFontSize"
    /\ lastCall.direction = 0 - prevCall.direction
    /\ validFont(prevFontSize)
    /\ Units(prevFontSize) = px
    /\ Magnitude(prevFontSize) > 10

\* C2 as stated: for every valid px font-size (above the minimum of 1), an
\* increase followed by a decrease, or a decrease followed by an increase,
\* restores the numeric font-size.
C2_RoundTripEveryFontSize ==
    OppositeAdjustments => Magnitude(CssFontSize) = Magnitude(prevFontSize)

\* C2 amended: the round trip restores the numeric px font-size f > 1 when
\* the decrease is not stopped by the minimum: always for
\* increase-then-decrease, for f > 2 for decrease-then-increase.
C2_RoundTripAboveMinimum ==
    (/\ OppositeAdjustments
     /\ Magnitude(prevFontSize) > (IF prevCall.direction = 1 THEN 10 ELSE 20))
        => (Units(CssFontSize) = px /\ Magnitude(CssFontSize) = Magnitude(prevFontSize))

\* C2 witness: a decrease then an increase, both applied, from 3px.
C2_Witness ==
    /\ OppositeAdjustments
    /\ prevCall.direction = -1
    /\ prevFontSize = <<"3">> \o px
    /\ pre.fontSize = <<"2">> \o px
    /\ head # pre.head

\* C3: after restoreFontSize no dynamic override is installed, and the
\* computed font-size and line-height are the static (pre-override) values.
C3_RestoreRemovesOverride ==
    lastCall.op = "restoreFontSize" =>
        /\ \A i \in 1..Len(head) : head[i].id # DYNAMIC_FONT_STYLE_ID
        /\ CssFontSize = baseFontSize
        /\ CssLineHeight = baseLineHeight

\* C3 witness: restore ran on an override that two adjustments had built.
C3_Witness ==
    /\ lastCall.op = "restoreFontSize"
    /\ prevCall.op = "adjustFontSize"
    /\ pre.head # <<>>
    /\ pre.fontSize # baseFontSize
    /\ head = <<>>

\* C4: at most one style element with the dynamic font id exists.
C4_AtMostOneOverride ==
    Cardinality({ i \in 1..Len(head) : head[i].id = DYNAMIC_FONT_STYLE_ID }) <= 1

\* C4 witness: an adjustment replaced an installed override by a new one.
C4_Witness ==
    /\ lastCall.op = "adjustFontSize"
    /\ pre.head # <<>>
    /\ head # pre.head
    /\ Len(head) = 1

-----------------------------------------------------------------------------
(* Claims about the scroll-line commands, checked under SpecScroll *)

ScrollRan == lastCall.op = "scrollLine"

\* The line range the last scrollLine call ended with.
FinalRange == out.trace[Len(out.trace)].linesInView

\* C5 as stated: the position handed to setScrollPos keeps the horizontal
\* offset and has the scroll top read at the start of the call plus
\* textHeight * direction as its vertical offset, also when that scroll top
\* is less than the top padding and the direction is +1.
C5_ScrollsFromOriginalTop ==
    ScrollRan =>
        /\ out.applied.x = pre.scrollPos.x
        /\ out.applied.y = pre.scrollPos.y + textHeight * lastCall.direction

\* C5 amended: the horizontal offset is kept and the vertical offset is the
\* clamped scroll top (the top padding when the scroll top read is less than
\* it and the direction is +1, the scroll top read otherwise) plus
\* textHeight * direction; the inline widgets do not change it.
C5_ScrollsFromClampedTop ==
    ScrollRan =>
        /\ out.applied.x = pre.scrollPos.x
        /\ out.applied.y =
              (IF pre.scrollPos.y < paddingTop /\ lastCall.direction = 1
               THEN paddingTop ELSE pre.scrollPos.y)
              + textHeight * lastCall.direction
        /\ scrollPos.x = pre.scrollPos.x

\* C5 witness: a scroll down from above the top padding, past an inline
\* widget that changed the line range.
C5_Witness ==
    /\ ScrollRan
    /\ lastCall.direction = 1
    /\ pre.scrollPos.y < paddingTop
    /\ Len(out.trace) = 2
    /\ out.trace[2] # out.trace[1]
    /\ scrollPos.y = paddingTop + textHeight

\* C6: with a selection active scrollLine leaves the cursor position as it
\* was, whatever the direction, the cursor line, the range and the widgets.
C6_SelectionKeepsCursor ==
    (ScrollRan /\ hasSelection) =>
        /\ cursorPos = pre.cursorPos
        /\ out.cursor.kind = "none"

\* C6 witness: a scroll down with a selection active, an inline widget, the
\* cursor above the first line of the range, and the scroll position changed.
C6_Witness ==
    /\ ScrollRan
    /\ hasSelection
    /\ lastCall.direction = 1
    /\ inlineWidgets # <<>>
    /\ pre.cursorPos.line < FinalRange.first
    /\ scrollPos # pre.scrollPos

\* C7: with no selection, on the computed range {first, last}: scrolling
\* down with the cursor above first asks for line first + 1; scrolling up with
\* the cursor below last asks for line last - 1; the cursor on first when
\* scrolling down, or on last when scrolling up, moves one line in the scroll
\* direction; otherwise the cursor is untouched.  The editor clips the line
\* to the document.  Without inline widgets the range is that of the clamped
\* scroll top, and a scroll down from at or below the padding asks for a
\* scroll top one text height larger.
C7_CursorRules ==
    (ScrollRan /\ ~hasSelection) =>
        LET d == lastCall.direction
            c == pre.cursorPos.line
            r == FinalRange
            clip(l) == IF l < 0 THEN 0 ELSE IF l > MaxLine THEN MaxLine ELSE l
        IN  /\ (d = 1 /\ c < r.first) =>
                  /\ out.cursor = [kind |-> "setCursorPos", line |-> r.first + 1]
                  /\ cursorPos = [line |-> clip(r.first + 1), ch |-> pre.cursorPos.ch]
            /\ (d = -1 /\ c > r.last) =>
                  /\ out.cursor = [kind |-> "setCursorPos", line |-> r.last - 1]
                  /\ cursorPos = [line |-> clip(r.last - 1), ch |-> pre.cursorPos.ch]
            /\ (~(d = 1 /\ c < r.first) /\ ~(d = -1 /\ c > r.last)
                  /\ ((d = 1 /\ c = r.first) \/ (d = -1 /\ c = r.last))) =>
                  /\ out.cursor.kind = "moveV"
                  /\ cursorPos.line = clip(c + d)
            /\ (~(d = 1 /\ c <= r.first) /\ ~(d = -1 /\ c >= r.last)) =>
                  /\ out.cursor.kind = "none"
                  /\ cursorPos = pre.cursorPos
            /\ inlineWidgets = <<>> =>
                  LET s == IF pre.scrollPos.y < paddingTop /\ d = 1
                           THEN paddingTop ELSE pre.scrollPos.y
                  IN  /\ r.first = 0 - ((0 - s) \div textHeight) - 1
                      /\ r.last = ((s + clientHeight) \div textHeight) - 2
            /\ (d = 1 /\ pre.scrollPos.y >= paddingTop) =>
                  out.applied.y = pre.scrollPos.y + textHeight

\* C7 witness: no widgets, no selection, the cursor above the first line of
\* the range; a scroll down puts it on first + 1 and raises the scroll top
\* by one text height.
C7_Witness ==
    /\ ScrollRan
    /\ ~hasSelection
    /\ inlineWidgets = <<>>
    /\ lastCall.direction = 1
    /\ pre.cursorPos.line < FinalRange.first
    /\ FinalRange.first < FinalRange.last
    /\ cursorPos.line = FinalRange.first + 1
    /\ scrollPos.y = pre.scrollPos.y + textHeight

InView(line, scrollTop) ==
    LET r == GetLinesInView(textHeight, scrollTop, clientHeight)
    IN  r.first <= line /\ line <= r.last

RequestsHonoured ==
    /\ scrollPos.y = out.applied.y
    /\ out.cursor.kind = "moveV" => cursorPos.line = pre.cursorPos.line + lastCall.direction
    /\ out.cursor.kind = "setCursorPos" => cursorPos.line = out.cursor.line

-----------------------------------------------------------------------------
(* Claim about the inline widgets, checked under SpecWidgets *)

\* The lower edge of widget w, line + height / textHeight, is above line l.
LowerEdgeAbove(w, l) == w.line * textHeight + w.height < l * textHeight

\* What the i-th widget did to the scroll top and the viewport height used
\* for the range.
LowersTop(i) ==
    /\ out.trace[i + 1].scrollTop = out.trace[i].scrollTop - inlineWidgets[i].height
    /\ out.trace[i + 1].editorHeight = out.trace[i].editorHeight

LowersHeight(i) ==
    /\ out.trace[i + 1].scrollTop = out.trace[i].scrollTop
    /\ out.trace[i + 1].editorHeight = out.trace[i].editorHeight - inlineWidgets[i].height

\* C9 as stated: every widget anchored above the first line of the range
\* computed before any widget is considered lowers the scroll top used for
\* the range by its height; a widget not above that line whose lower edge is
\* above the last visible line lowers the viewport height by its height
\* instead; no widget does both.  Stated for widgets anchored on distinct
\* lines.
C9_WidgetsAgainstInitialRange ==
    (/\ ScrollRan
     /\ \A i, j \in 1..Len(inlineWidgets) :
           i # j => inlineWidgets[i].line # inlineWidgets[j].line) =>
        /\ Len(out.trace) = Len(inlineWidgets) + 1
        /\ \A i \in 1..Len(inlineWidgets) :
              LET w == inlineWidgets[i]
                  above == w.line < out.trace[1].linesInView.first
              IN  /\ above => LowersTop(i)
                  /\ (~above /\ LowerEdgeAbove(w, out.trace[i].linesInView.last))
                        => LowersHeight(i)

\* C9 amended: each widget is tested against the range as recomputed after
\* the widgets enumerated before it: anchored above that range's first line
\* it lowers the scroll top by its height; otherwise, with its lower edge
\* above that range's last line, it lowers the viewport height by its height
\* instead; otherwise it changes neither; the range is recomputed after each
\* correction.
C9_WidgetsAgainstCurrentRange ==
    ScrollRan =>
        /\ Len(out.trace) = Len(inlineWidgets) + 1
        /\ \A i \in 1..Len(inlineWidgets) :
              LET w == inlineWidgets[i]
                  above == w.line < out.trace[i].linesInView.first
                  below == LowerEdgeAbove(w, out.trace[i].linesInView.last)
                  after == out.trace[i + 1]
              IN  /\ above => LowersTop(i)
                  /\ (~above /\ below) => LowersHeight(i)
                  /\ (~above /\ ~below) =>
                        /\ after.scrollTop = out.trace[i].scrollTop
                        /\ after.editorHeight = out.trace[i].editorHeight
                  /\ after.linesInView.first
                        = 0 - ((0 - after.scrollTop) \div textHeight) - 1
                  /\ after.linesInView.last
                        = ((after.scrollTop + after.editorHeight) \div textHeight) - 2

\* C9 witness: two widgets; the first lowered the scroll top, so that the
\* second, anchored above the first line of the initial range, is no longer
\* above the first line of the current one and lowers the viewport height.
C9_Witness ==
    /\ ScrollRan
    /\ Len(inlineWidgets) = 2
    /\ inlineWidgets[1].line # inlineWidgets[2].line
    /\ LowersTop(1)
    /\ inlineWidgets[2].line < out.trace[1].linesInView.first
    /\ inlineWidgets[2].line >= out.trace[2].linesInView.first
    /\ LowersHeight(2)

-----------------------------------------------------------------------------
(* Claim about the visible-line calculator, checked under SpecLines *)

LinesRan == lastCall.op = "getLinesInView"

\* Line i, spanning [i * h, (i + 1) * h), lies entirely inside the viewport
\* [s, s + v].
FullyVisible(i) ==
    /\ i * textHeight >= scrollPos.y
    /\ (i + 1) * textHeight <= scrollPos.y + clientHeight

\* C8 as stated: every zero-based line index from first to last lies
\* entirely inside the viewport.
C8_RangeFullyVisible ==
    LinesRan =>
        \A i \in FinalRange.first..FinalRange.last : i >= 0 => FullyVisible(i)

\* C8 amended: every line index i with first < i <= last lies entirely
\* inside the viewport; line first itself begins above the viewport's top,
\* so it is at best partially visible.
C8_RangeFullyVisibleAfterFirst ==
    LinesRan =>
        /\ \A i \in (FinalRange.first + 1)..FinalRange.last : FullyVisible(i)
        /\ FinalRange.first * textHeight < scrollPos.y
        /\ FinalRange.first = 0 - ((0 - scrollPos.y) \div textHeight) - 1

\* C8 witness: a range of at least three lines from a scroll offset that is
\* not a multiple of the text height.
C8_Witness ==
    /\ LinesRan
    /\ scrollPos.y % textHeight # 0
    /\ FinalRange.first >= 0
    /\ FinalRange.first + 2 <= FinalRange.last

=============================================================================
